---------------------------- MODULE Spec2Model ----------------------------
(* Movie-Booking-System: the Flask application of app.py over the two     *)
(* tables of models.py (User, Booking) and the on-disk snapshot cache.     *)
(* Each route handler is one action; the catalog functions                 *)
(* get_recent_movies / get_movie_details are operators that take the       *)
(* metadata service's reply as an input and return the value and the new   *)
(* snapshot file.                                                          *)
EXTENDS Integers, Sequences, FiniteSets, TLC

(***************************************************************************)
(* Bounds of the model.                                                    *)
(***************************************************************************)
\* largest Booking.id the model lets the store assign
MaxBookingId == 2
\* longest "results" array of a list reply of the metadata service
MaxResults == 2

\* browsers (each with its own session cookie), and what they submit
Clients   == {"c1"}
Emails    == {"a@x", "b@x"}
Names     == {"Ann"}
Passwords == {"pw1", "pw2"}
\* passwords chosen at registration, and the salts generate_password_hash draws
RegPasswords == {"pw1"}
Salts     == {"s1"}
\* ids in /movie/<id> requests
Movies    == {1}
\* ids asked of get_movie_details directly: 3 is an id the service has no record of
MovieIds  == {1, 2, 3}

(***************************************************************************)
(* Python values.  An optional value (dict.get, a function returning None) *)
(* is a sequence of length <= 1: None is << >>.                            *)
(***************************************************************************)
None == << >>

Some(v) == << v >>

\* truthiness of an optional str / dict / list: None and the empty value are falsy
TruthyStr(o) == o # None /\ o[1] # ""

TruthyInt(o) == o # None /\ o[1] # 0

TruthySeq(o) == o # None /\ o[1] # << >>

\* dict.get(key): the value, or None when the key is absent
Get(d, k) == IF k \in DOMAIN d THEN Some(d[k]) ELSE None

(***************************************************************************)
(* int(str): the seats field is a sequence of characters.                  *)
(***************************************************************************)
Digits == <<"0", "1", "2", "3", "4", "5", "6", "7", "8", "9">>

IsDigit(ch) == \E i \in 1..10 : Digits[i] = ch

DigitVal(ch) == (CHOOSE i \in 1..10 : Digits[i] = ch) - 1

RECURSIVE LStrip(_)
LStrip(s) == IF s # << >> /\ Head(s) = " " THEN LStrip(Tail(s)) ELSE s

RECURSIVE RStrip(_)
RStrip(s) == IF s # << >> /\ s[Len(s)] = " " THEN RStrip(SubSeq(s, 1, Len(s) - 1)) ELSE s

RECURSIVE DigitsValue(_)
DigitsValue(s) == IF s = << >> THEN 0
                  ELSE 10 * DigitsValue(SubSeq(s, 1, Len(s) - 1)) + DigitVal(s[Len(s)])

\* int(s): [ok |-> TRUE, val |-> n], or [ok |-> FALSE] for ValueError
ParseInt(s) ==
    LET t    == RStrip(LStrip(s))
        sgn  == IF t # << >> /\ Head(t) = "-" THEN -1 ELSE 1
        body == IF t # << >> /\ Head(t) \in {"-", "+"} THEN Tail(t) ELSE t
    IN  IF body # << >> /\ \A i \in 1..Len(body) : IsDigit(body[i])
        THEN [ok |-> TRUE, val |-> sgn * DigitsValue(body)]
        ELSE [ok |-> FALSE]

(***************************************************************************)
(* The metadata service.  An HTTP exchange as session.get sees it once the *)
(* adapter's retries are over: a transport error, or a status and a JSON   *)
(* body.  A JSON object is a function from its keys; the snapshot files    *)
(* hold what json.dumps wrote (objects whose keys are strings and whose    *)
(* values are ints and strings, which json.loads reads back unchanged).    *)
(***************************************************************************)
TransportError == [error |-> TRUE]

Http(status, body) == [error |-> FALSE, status |-> status, json |-> body]

Dune == [id |-> 1, title |-> "Dune", poster_path |-> "/dune.jpg"]

Heat == [id |-> 2, title |-> "Heat", poster_path |-> "/heat.jpg"]

\* records of the service: complete ones, and ones lacking a poster, a title or an id
ApiMovies == { Dune, Heat,
               [id |-> 1, title |-> "Dune"],
               [id |-> 2, title |-> "", poster_path |-> "/heat.jpg"],
               [id |-> 0, title |-> "Zero", poster_path |-> "/zero.jpg"] }

SeqsUpTo(S, n) == UNION { [1..k -> S] : k \in 0..n }

ErrorBody == [status_message |-> "The resource you requested could not be found."]

\* replies of a list endpoint (/discover/movie, /trending/movie/week)
ListReplies == { TransportError, Http(503, ErrorBody), Http(200, ErrorBody) }
               \cup { Http(200, [results |-> r]) : r \in SeqsUpTo(ApiMovies, MaxResults) }

\* replies of /movie/{id}
DetailReplies == { TransportError, Http(503, ErrorBody), Http(404, ErrorBody) }
                 \cup { Http(200, m) : m \in ApiMovies }

\* tmdb_get: the parsed JSON, or None on a transport error or an error status
tmdb_get(reply) ==
    IF reply.error THEN None
    ELSE IF reply.status >= 400 THEN None
    ELSE Some(reply.json)

(***************************************************************************)
(* Snapshot files.                                                         *)
(***************************************************************************)
NoFile == [kind |-> "nofile"]

Corrupt == [kind |-> "corrupt"]

JsonText(v) == [kind |-> "json", val |-> v]

\* how a write_text ends: done, refused (file untouched), or cut short
WriteOutcomes == {"ok", "refused", "truncated"}

cache_read(file) ==
    IF file.kind = "nofile" THEN None
    ELSE IF file.kind = "json" THEN Some(file.val)
    ELSE None

cache_write(file, data, io) ==
    CASE io = "ok"        -> JsonText(data)
      [] io = "refused"   -> file
      [] io = "truncated" -> Corrupt

\* Complete without the poster_path test
Complete_NoPosterTest(m) ==
    /\ TruthyInt(Get(m, "id"))
    /\ TruthyStr(Get(m, "title"))

\* m.get("id") and m.get("title") and m.get("poster_path")
Complete(m) ==
    /\ TruthyInt(Get(m, "id"))
    /\ TruthyStr(Get(m, "title"))
    /\ TruthyStr(Get(m, "poster_path"))

\* data and "results" in data, then the list comprehension; << >> otherwise
CompleteResults(data) ==
    IF data # None /\ DOMAIN data[1] # {} /\ "results" \in DOMAIN data[1]
    THEN SelectSeq(data[1].results, Complete)
    ELSE << >>

\* get_recent_movies: [ret |-> the list returned, file |-> recent.json afterwards]
get_recent_movies(discover, trending, io, file) ==
    LET movies1 == CompleteResults(tmdb_get(discover))
        movies2 == CompleteResults(tmdb_get(trending))
        cached  == cache_read(file)
    IN  IF movies1 # << >>
        THEN [ret |-> movies1, file |-> cache_write(file, movies1, io)]
        ELSE IF movies2 # << >>
        THEN [ret |-> movies2, file |-> cache_write(file, movies2, io)]
        ELSE [ret |-> IF TruthySeq(cached) THEN cached[1] ELSE << >>, file |-> file]

\* get_movie_details without the comparison of the reply's id with movie_id
get_movie_details_NoIdTest(movie_id, reply, io, file) ==
    LET data == tmdb_get(reply)
    IN  IF data # None /\ DOMAIN data[1] # {}
        THEN [ret |-> data, file |-> cache_write(file, data[1], io)]
        ELSE [ret |-> cache_read(file), file |-> file]

\* get_movie_details: [ret |-> the record or None, file |-> movie_<id>.json afterwards]
get_movie_details(movie_id, reply, io, file) ==
    LET data == tmdb_get(reply)
    IN  IF data # None /\ DOMAIN data[1] # {} /\ Get(data[1], "id") = Some(movie_id)
        THEN [ret |-> data, file |-> cache_write(file, data[1], io)]
        ELSE [ret |-> cache_read(file), file |-> file]

(***************************************************************************)
(* State.                                                                  *)
(***************************************************************************)
VARIABLES
    users,       \* rows of table user: [id, name, email, password]
    bookings,    \* rows of table booking
    session,     \* per browser: the id of the logged-in user, 0 when anonymous
    recentFile,  \* cache/recent.json
    movieFile,   \* cache/movie_<id>.json, per movie id
    written,     \* the list of the last completed write of recent.json (None: none yet)
    call,        \* the last direct call of a catalog function or of tmdb_get, and its result
    resp,        \* the last request (browser, route, id in the path) and its response
    pend         \* per worker thread: the booking request it is in the middle of

vars == << users, bookings, session, recentFile, movieFile, written, call, resp, pend >>

Workers == {"w1", "w2"}

Idle == [pc |-> "idle"]

NoCall == [fn |-> "none", id |-> 0, source |-> "none", list |-> << >>, detail |-> None]

NoResp == [client |-> "-", route |-> "none", arg |-> 0, kind |-> "none", view |-> "",
           message_type |-> "", message |-> "", booking_success |-> FALSE]

\* the state of a fresh deployment: db.create_all() on empty tables, an empty cache directory
Init ==
    /\ users = {}
    /\ bookings = {}
    /\ session = [c \in Clients |-> 0]
    /\ recentFile = NoFile
    /\ movieFile = [m \in MovieIds |-> NoFile]
    /\ written = None
    /\ call = NoCall
    /\ resp = NoResp
    /\ pend = [w \in Workers |-> Idle]

(***************************************************************************)
(* The catalog service called directly, with any reply of the service and  *)
(* any outcome of the snapshot write.                                      *)
(***************************************************************************)
\* whether get_recent_movies goes on to the trending query
NeedsTrending(discover) == CompleteResults(tmdb_get(discover)) = << >>

\* which of its three sources get_recent_movies returns from
RecentSource(discover, trending) ==
    IF CompleteResults(tmdb_get(discover)) # << >> THEN "discover"
    ELSE IF CompleteResults(tmdb_get(trending)) # << >> THEN "trending"
    ELSE "snapshot"

\* which of its two sources get_movie_details returns from
DetailSource(movie_id, reply) ==
    IF get_movie_details(movie_id, reply, "ok", NoFile).file # NoFile THEN "live" ELSE "snapshot"

\* the list of the last completed write of recent.json, after a call that returned ret
WrittenAfter(source, io, ret, old) ==
    IF source # "snapshot" /\ io = "ok" THEN Some(ret) ELSE old

RecentCall ==
    \E discover \in ListReplies :
    \E trending \in IF NeedsTrending(discover) THEN ListReplies ELSE {TransportError} :
    \E io \in IF RecentSource(discover, trending) = "snapshot" THEN {"ok"} ELSE WriteOutcomes :
        LET r   == get_recent_movies(discover, trending, io, recentFile)
            src == RecentSource(discover, trending)
        IN  /\ recentFile' = r.file
            /\ written' = WrittenAfter(src, io, r.ret, written)
            /\ call' = [fn |-> "recent", id |-> 0, source |-> src, list |-> r.ret, detail |-> None]
            /\ UNCHANGED << users, bookings, session, movieFile, resp, pend >>

DetailsCall ==
    \E movie_id \in MovieIds, reply \in DetailReplies :
    \E io \in IF DetailSource(movie_id, reply) = "snapshot" THEN {"ok"} ELSE WriteOutcomes :
        LET r == get_movie_details(movie_id, reply, io, movieFile[movie_id])
        IN  /\ movieFile' = [movieFile EXCEPT ![movie_id] = r.file]
            /\ call' = [fn |-> "details", id |-> movie_id, source |-> DetailSource(movie_id, reply),
                        list |-> << >>, detail |-> r.ret]
            /\ UNCHANGED << users, bookings, session, recentFile, written, resp, pend >>

\* any sequence of calls of get_recent_movies
RecentSpec == Init /\ [][RecentCall]_vars

\* any sequence of calls of get_movie_details
DetailSpec == Init /\ [][DetailsCall]_vars

(***************************************************************************)
(* One tmdb_get, attempt by attempt.  session.get goes through the         *)
(* HTTPAdapter mounted with the Retry object retries: urllib3 takes one    *)
(* from retries.total for every attempt that ends in a connection or read  *)
(* error or in a status of status_forcelist, sends the request again while *)
(* the count has not fallen below zero, and gives up (MaxRetryError, which *)
(* requests raises as a RequestException) when it has.                     *)
(***************************************************************************)
\* Retry(total=4, status_forcelist=[429, 500, 502, 503, 504], allowed_methods=["GET"])
retries == [total |-> 4, status_forcelist |-> {429, 500, 502, 503, 504},
            allowed_methods |-> {"GET"}]

\* how one HTTP attempt of a fetch ends
AttemptReplies == { TransportError, Http(200, Dune), Http(404, ErrorBody) }
                  \cup { Http(status, ErrorBody) : status \in retries.status_forcelist }

\* Retry.is_retry for a response, and the errors Retry.increment counts
Retryable(reply) ==
    /\ "GET" \in retries.allowed_methods
    /\ IF reply.error THEN TRUE ELSE reply.status \in retries.status_forcelist

\* tmdb_get is called: no attempt made yet, the retry count as configured
tmdb_get_call ==
    /\ IF call.fn = "tmdb_get" THEN call.pc = "returned" ELSE TRUE
    /\ call' = [fn |-> "tmdb_get", pc |-> "sending", total |-> retries.total,
                log |-> << >>, ret |-> None]
    /\ UNCHANGED << users, bookings, session, recentFile, movieFile, written, resp, pend >>

\* one attempt of session.get and what the adapter does with its outcome;
\* log is the outcomes of the attempts made so far
send(reply) ==
    /\ call.fn = "tmdb_get"
    /\ call.pc = "sending"
    /\ LET log == Append(call.log, reply)
       IN  IF Retryable(reply) /\ call.total - 1 >= 0
           THEN call' = [call EXCEPT !.total = call.total - 1, !.log = log]
           ELSE call' = [call EXCEPT !.pc = "returned", !.log = log,
                                     !.total = IF Retryable(reply) THEN call.total - 1
                                               ELSE call.total,
                                     !.ret = tmdb_get(reply)]
    /\ UNCHANGED << users, bookings, session, recentFile, movieFile, written, resp, pend >>

FetchNext ==
    \/ tmdb_get_call
    \/ \E reply \in AttemptReplies : send(reply)

\* any sequence of fetches of the metadata client
FetchSpec == Init /\ [][FetchNext]_vars

(***************************************************************************)
(* The web application: one action per route handler.                      *)
(***************************************************************************)
\* the form of a booking POST; a field the browser did not send is absent
Form(seats, showtime, date) ==
    [movie_title |-> "Dune", seats |-> seats, showtime |-> showtime, date |-> date]

\* what the seats field is filled with
SeatInputs == { << >>, <<"a", "b", "c">>, <<"0">>, <<"2">> }

Forms == { Form(s, "18:00", "2025-01-01") : s \in SeatInputs }
         \cup { Form(<<"2">>, "21:00", "2025-01-01"),
                Form(<<"2">>, "", "2025-01-01"), Form(<<"2">>, "18:00", ""),
                [showtime |-> "18:00", date |-> "2025-01-01"] }

\* replies of /movie/{id} the routes are run against: the service down, the
\* record asked for
AppDetailReplies(movie_id) ==
    { TransportError, Http(200, IF movie_id = 1 THEN Dune ELSE Heat) }

\* the query strings of / the routes are run against
Queries == { << >>, << " " >>, << "d" >> }

\* replies of /search/movie to the unguarded requests.get of index
SearchReplies == { TransportError, Http(503, ErrorBody), Http(200, [results |-> << Dune >>]) }

\* replies of the list endpoints the routes are run against
AppListReplies == { TransportError, Http(200, [results |-> << Dune >>]) }

AppWriteOutcomes == {"ok"}

\* the id an INTEGER PRIMARY KEY column of SQLite gets on insert: max(id) + 1
NextId(rows) ==
    IF rows = {} THEN 1
    ELSE (CHOOSE i \in {r.id : r \in rows} : \A r \in rows : r.id <= i) + 1

\* generate_password_hash: a salted digest
generate_password_hash(password, salt) ==
    [salt |-> salt, digest |-> << "pbkdf2", salt, password >>]

check_password_hash(pwhash, password) ==
    pwhash.digest = << "pbkdf2", pwhash.salt, password >>

\* Query.filter_by(...).first(): None or a matching row
First(rows) == IF rows = {} THEN None ELSE Some(CHOOSE r \in rows : TRUE)

\* a request: the browser, the route and the id in its path (0 when it has none)
Req(c, route, arg) == [client |-> c, route |-> route, arg |-> arg]

\* render_template(view, message=..., message_type=..., booking_success=...)
Page(req, view, message_type, message, booking_success) ==
    [client |-> req.client, route |-> req.route, arg |-> req.arg, kind |-> "page",
     view |-> view, message_type |-> message_type, message |-> message,
     booking_success |-> booking_success]

\* redirect(url_for(target, ...))
Redirect(req, target, message_type, message) ==
    [client |-> req.client, route |-> req.route, arg |-> req.arg, kind |-> "redirect",
     view |-> target, message_type |-> message_type, message |-> message,
     booking_success |-> FALSE]

\* an exception no handler catches: Flask answers 500
ServerError(req, exception) ==
    [client |-> req.client, route |-> req.route, arg |-> req.arg, kind |-> "error",
     view |-> "", message_type |-> "", message |-> exception, booking_success |-> FALSE]

\* @login_required with no login_view configured: flask_login aborts with 401
LoginRequired_NoLoginView(req) == ServerError(req, "Unauthorized")

\* @login_required on an anonymous session: login_manager.login_view
LoginRequired(req) == Redirect(req, "login", "", "")

\* the lookup of register and login made on the name column instead of email
UserByEmail_ByName(email) == First({u \in users : u.name = email})

UserByEmail(email) == First({u \in users : u.email = email})

\* flask_login's current_user for a browser with an authenticated session
CurrentUser(c) == CHOOSE u \in users : u.id = session[c]

\* POST /register; the INSERT fails on the unique email column of models.py
register(name, email, password, salt) ==
    LET req == Req("-", "register", 0)
    IN  /\ IF UserByEmail(email) # None
           THEN /\ resp' = Page(req, "register.html", "danger", "email_registered", FALSE)
                /\ UNCHANGED users
           ELSE IF \E u \in users : u.email = email
           THEN /\ resp' = ServerError(req, "IntegrityError")
                /\ UNCHANGED users
           ELSE /\ users' = users \cup { [id |-> NextId(users), name |-> name, email |-> email,
                                          password |-> generate_password_hash(password, salt)] }
                /\ resp' = Redirect(req, "login", "success", "account_created")
        /\ UNCHANGED << bookings, session, recentFile, movieFile, written, call, pend >>

\* login with a message of its own for an email that has no row
login_UnknownEmailMessage(c, email, password) ==
    LET req  == Req(c, "login", 0)
        user == UserByEmail(email)
    IN  /\ IF user # None /\ check_password_hash(user[1].password, password)
           THEN /\ session' = [session EXCEPT ![c] = user[1].id]
                /\ resp' = Redirect(req, "dashboard", "", "")
           ELSE /\ resp' = Page(req, "login.html", "danger",
                                 IF user = None THEN "unknown_email" ELSE "invalid_credentials",
                                 FALSE)
                /\ UNCHANGED session
        /\ UNCHANGED << users, bookings, recentFile, movieFile, written, call, pend >>

\* POST /login
login(c, email, password) ==
    LET req  == Req(c, "login", 0)
        user == UserByEmail(email)
    IN  /\ IF user # None /\ check_password_hash(user[1].password, password)
           THEN /\ session' = [session EXCEPT ![c] = user[1].id]
                /\ resp' = Redirect(req, "dashboard", "", "")
           ELSE /\ resp' = Page(req, "login.html", "danger", "invalid_credentials", FALSE)
                /\ UNCHANGED session
        /\ UNCHANGED << users, bookings, recentFile, movieFile, written, call, pend >>

\* not (seats and showtime and date_selected), negated
FieldsPresent(form) ==
    /\ TruthySeq(Get(form, "seats"))
    /\ TruthyStr(Get(form, "showtime"))
    /\ TruthyStr(Get(form, "date"))

\* request.form.get("movie_title") or "Unknown"
MovieTitle(form) ==
    IF TruthyStr(Get(form, "movie_title")) THEN form.movie_title ELSE "Unknown"

\* the duplicate query with the showtime test left out
ExistingBooking_NoShowtimeTest(rows, user, movie_id, form) ==
    First({ b \in rows : /\ b.movie_id = movie_id
                          /\ b.user_id = user.id
                          /\ b.date = form.date })

\* the duplicate query: filter_by(movie_id, user_id, showtime, date).first()
ExistingBooking(rows, user, movie_id, form) ==
    First({ b \in rows : /\ b.movie_id = movie_id
                          /\ b.user_id = user.id
                          /\ b.showtime = form.showtime
                          /\ b.date = form.date })

\* Booking(...) with the contact columns filled the wrong way round
NewBooking_ContactSwapped(rows, user, movie_id, form) ==
    [id |-> NextId(rows), user_id |-> user.id, movie_id |-> movie_id,
     movie_title |-> MovieTitle(form), name |-> user.email, email |-> user.name,
     seats |-> ParseInt(form.seats).val, showtime |-> form.showtime, date |-> form.date]

\* Booking(...) as movie_page builds it, with the id the store assigns
NewBooking(rows, user, movie_id, form) ==
    [id |-> NextId(rows), user_id |-> user.id, movie_id |-> movie_id,
     movie_title |-> MovieTitle(form), name |-> user.name, email |-> user.email,
     seats |-> ParseInt(form.seats).val, showtime |-> form.showtime, date |-> form.date]

\* movie_page from the outcome of the duplicate query on: how the POST branch
\* ends and the rows of booking afterwards
BookingCommit(rows, user, movie_id, form, existing) ==
    IF existing # None THEN [outcome |-> "duplicate", rows |-> rows]
    ELSE IF ~ParseInt(form.seats).ok THEN [outcome |-> "ValueError", rows |-> rows]
    ELSE [outcome |-> "booked", rows |-> rows \cup { NewBooking(rows, user, movie_id, form) }]

\* the POST branch of movie_page
BookingStep(rows, user, movie_id, form) ==
    IF ~FieldsPresent(form) THEN [outcome |-> "warning", rows |-> rows]
    ELSE BookingCommit(rows, user, movie_id, form, ExistingBooking(rows, user, movie_id, form))

\* the tail of movie_page: the detail lookup decides which page is rendered
MoviePageResponse(req, movie, outcome) ==
    IF movie = None \/ DOMAIN movie[1] = {}
    THEN Page(req, "movie.html", "error", "details_unavailable", FALSE)
    ELSE CASE outcome = "warning"   -> Page(req, "movie.html", "warning", "complete_all_fields", FALSE)
           [] outcome = "duplicate" -> Page(req, "movie.html", "error", "already_booked", FALSE)
           [] outcome = "booked"    -> Page(req, "movie.html", "success", "booking_successful", TRUE)
           [] OTHER                 -> Page(req, "movie.html", "", "", FALSE)

\* GET /movie/<movie_id>
movie_page_get(c, movie_id, reply, io) ==
    LET req == Req(c, "movie_get", movie_id)
    IN  /\ IF session[c] = 0
           THEN /\ resp' = LoginRequired(req)
                /\ UNCHANGED movieFile
           ELSE LET d == get_movie_details(movie_id, reply, io, movieFile[movie_id])
                IN  /\ movieFile' = [movieFile EXCEPT ![movie_id] = d.file]
                    /\ resp' = MoviePageResponse(req, d.ret, "none")
        /\ UNCHANGED << users, bookings, session, recentFile, written, call, pend >>

\* POST /movie/<movie_id>; int(seats) raising ValueError ends the request
movie_page_post(c, movie_id, form, reply, io) ==
    LET req == Req(c, "movie_post", movie_id)
    IN  /\ IF session[c] = 0
           THEN /\ resp' = LoginRequired(req)
                /\ UNCHANGED << bookings, movieFile >>
           ELSE LET b == BookingStep(bookings, CurrentUser(c), movie_id, form)
                    d == get_movie_details(movie_id, reply, io, movieFile[movie_id])
                IN  IF b.outcome = "ValueError"
                    THEN /\ resp' = ServerError(req, "ValueError")
                         /\ UNCHANGED << bookings, movieFile >>
                    ELSE /\ b.outcome = "booked" => NextId(bookings) <= MaxBookingId
                         /\ bookings' = b.rows
                         /\ movieFile' = [movieFile EXCEPT ![movie_id] = d.file]
                         /\ resp' = MoviePageResponse(req, d.ret, b.outcome)
        /\ UNCHANGED << users, session, recentFile, written, call, pend >>

\* the ownership query with the id test left out
OwnedBooking_NoIdTest(rows, booking_id, user) ==
    First({ b \in rows : b.email = user.email })

\* the ownership query with the email test left out
OwnedBooking_NoEmailTest(rows, booking_id, user) ==
    First({ b \in rows : b.id = booking_id })

\* the ownership query of cancel_booking: filter_by(id, email).first()
OwnedBooking(rows, booking_id, user) ==
    First({ b \in rows : b.id = booking_id /\ b.email = user.email })

\* cancel_booking answering as if it had deleted the row, without deleting it
cancel_booking_NoDelete(c, booking_id) ==
    LET req == Req(c, "cancel", booking_id)
    IN  /\ IF session[c] = 0
           THEN resp' = LoginRequired(req)
           ELSE LET booking == OwnedBooking(bookings, booking_id, CurrentUser(c))
                IN  IF booking # None
                    THEN resp' = Page(req, "booking_cancelled.html", "error",
                                      "booking_cancelled", FALSE)
                                 @@ [booking |-> booking[1]]
                    ELSE resp' = Redirect(req, "dashboard", "", "")
        /\ UNCHANGED << users, bookings, session, recentFile, movieFile, written, call, pend >>

\* POST /cancel/<booking_id>; the row deleted is recorded with the response
cancel_booking(c, booking_id) ==
    LET req == Req(c, "cancel", booking_id)
    IN  /\ IF session[c] = 0
           THEN /\ resp' = LoginRequired(req)
                /\ UNCHANGED bookings
           ELSE LET booking == OwnedBooking(bookings, booking_id, CurrentUser(c))
                IN  IF booking # None
                    THEN /\ bookings' = bookings \ { booking[1] }
                         /\ resp' = Page(req, "booking_cancelled.html", "error",
                                         "booking_cancelled", FALSE)
                                     @@ [booking |-> booking[1]]
                    ELSE /\ resp' = Redirect(req, "dashboard", "", "")
                         /\ UNCHANGED bookings
        /\ UNCHANGED << users, session, recentFile, movieFile, written, call, pend >>

\* the rows of Booking.query.all(), in id order
RECURSIVE RowsInOrder(_)
RowsInOrder(rows) ==
    IF rows = {} THEN << >>
    ELSE LET r == CHOOSE x \in rows : \A y \in rows : x.id <= y.id
         IN  << r >> \o RowsInOrder(rows \ {r})

\* the loop of dashboard: one detail lookup per row, each with its own reply
RECURSIVE DashboardLookups(_, _, _)
DashboardLookups(rows, env, files) ==
    IF rows = << >> THEN files
    ELSE LET b == Head(rows)
             d == get_movie_details(b.movie_id, env[b.id].reply, env[b.id].io, files[b.movie_id])
         IN  DashboardLookups(Tail(rows), env, [files EXCEPT ![b.movie_id] = d.file])

\* per row, the reply of the service and the outcome of the snapshot write
DashboardEnvs ==
    [ {b.id : b \in bookings} ->
        UNION { [reply : AppDetailReplies(m), io : AppWriteOutcomes] : m \in Movies } ]

\* GET /dashboard; the page is rendered with bookings = Booking.query.all()
dashboard(c) ==
    LET req == Req(c, "dashboard", 0)
    IN  /\ IF session[c] = 0
           THEN /\ resp' = LoginRequired(req)
                /\ UNCHANGED movieFile
           ELSE \E env \in DashboardEnvs :
                /\ movieFile' = DashboardLookups(RowsInOrder(bookings), env, movieFile)
                /\ resp' = Page(req, "dashboard.html", "", "", FALSE)
                            @@ [bookings |-> RowsInOrder(bookings)]
        /\ UNCHANGED << users, bookings, session, recentFile, written, call, pend >>

\* the call of get_recent_movies made by index and logout
RecentLookup(discover, trending, io) ==
    LET r == get_recent_movies(discover, trending, io, recentFile)
    IN  /\ recentFile' = r.file
        /\ written' = WrittenAfter(RecentSource(discover, trending), io, r.ret, written)

\* GET /logout
logout(c, discover, trending, io) ==
    /\ session' = [session EXCEPT ![c] = 0]
    /\ RecentLookup(discover, trending, io)
    /\ resp' = Page(Req(c, "logout", 0), "index.html", "info", "logged_out", FALSE)
    /\ UNCHANGED << users, bookings, movieFile, call, pend >>

\* GET /?q=...; the search goes through requests.get with no try around it
index(q, search, discover, trending, io) ==
    LET req == Req("-", "index", 0)
    IN  /\ IF RStrip(LStrip(q)) # << >> /\ search.error
           THEN /\ resp' = ServerError(req, "ConnectionError")
                /\ UNCHANGED << recentFile, written >>
           ELSE /\ RecentLookup(discover, trending, io)
                /\ resp' = Page(req, "index.html", "", "", FALSE)
        /\ UNCHANGED << users, bookings, session, movieFile, call, pend >>

Next ==
    \/ \E name \in Names, email \in Emails, password \in RegPasswords, salt \in Salts :
           register(name, email, password, salt)
    \/ \E c \in Clients, email \in Emails, password \in Passwords : login(c, email, password)
    \/ \E c \in Clients, discover \in AppListReplies, io \in AppWriteOutcomes :
       \E trending \in IF NeedsTrending(discover) THEN AppListReplies ELSE {TransportError} :
           logout(c, discover, trending, io)
    \/ \E q \in Queries, discover \in AppListReplies, io \in AppWriteOutcomes :
       \E search \in IF RStrip(LStrip(q)) # << >> THEN SearchReplies ELSE {TransportError} :
       \E trending \in IF NeedsTrending(discover) THEN AppListReplies ELSE {TransportError} :
           index(q, search, discover, trending, io)
    \/ \E c \in Clients, movie_id \in Movies, io \in AppWriteOutcomes :
       \E reply \in AppDetailReplies(movie_id) : movie_page_get(c, movie_id, reply, io)
    \/ \E c \in Clients, movie_id \in Movies, form \in Forms, io \in AppWriteOutcomes :
       \E reply \in AppDetailReplies(movie_id) : movie_page_post(c, movie_id, form, reply, io)
    \/ \E c \in Clients : dashboard(c)
    \/ \E c \in Clients, booking_id \in 1..(MaxBookingId + 1) : cancel_booking(c, booking_id)

\* the application serving one request at a time
Spec == Init /\ [][Next]_vars

(***************************************************************************)
(* Booking requests served by concurrent worker threads: a request is      *)
(* suspended between its duplicate query and its INSERT/COMMIT, the two    *)
(* statements it sends to the store.                                       *)
(***************************************************************************)
\* the forms of the concurrent requests
ConcForms == { Form(<<"2">>, "18:00", "2025-01-01"), Form(<<"2">>, "21:00", "2025-01-01") }

\* movie_page up to and including the duplicate query
post_query(w, c, movie_id, form) ==
    /\ pend[w].pc = "idle"
    /\ session[c] # 0
    /\ FieldsPresent(form)
    /\ pend' = [pend EXCEPT ![w] =
                  [pc |-> "queried", client |-> c, user |-> CurrentUser(c),
                   movie_id |-> movie_id, form |-> form,
                   existing |-> ExistingBooking(bookings, CurrentUser(c), movie_id, form)]]
    /\ UNCHANGED << users, bookings, session, recentFile, movieFile, written, call, resp >>

\* movie_page from the test of the query's result to the rendered page
post_commit(w, reply, io) ==
    /\ pend[w].pc = "queried"
    /\ LET p   == pend[w]
           req == Req(p.client, "movie_post", p.movie_id)
           b   == BookingCommit(bookings, p.user, p.movie_id, p.form, p.existing)
           d   == get_movie_details(p.movie_id, reply, io, movieFile[p.movie_id])
       IN  IF b.outcome = "ValueError"
           THEN /\ resp' = ServerError(req, "ValueError")
                /\ UNCHANGED << bookings, movieFile >>
           ELSE /\ b.outcome = "booked" => NextId(bookings) <= MaxBookingId
                /\ bookings' = b.rows
                /\ movieFile' = [movieFile EXCEPT ![p.movie_id] = d.file]
                /\ resp' = MoviePageResponse(req, d.ret, b.outcome)
    /\ pend' = [pend EXCEPT ![w] = Idle]
    /\ UNCHANGED << users, session, recentFile, written, call >>

ConcNext ==
    \/ \E name \in Names, email \in Emails, password \in RegPasswords, salt \in Salts :
           register(name, email, password, salt)
    \/ \E c \in Clients, email \in Emails, password \in Passwords : login(c, email, password)
    \/ \E w \in Workers, c \in Clients, movie_id \in Movies, form \in ConcForms :
           post_query(w, c, movie_id, form)
    \/ \E w \in Workers, io \in AppWriteOutcomes :
       \E reply \in AppDetailReplies(IF pend[w].pc = "queried" THEN pend[w].movie_id ELSE 1) :
           post_commit(w, reply, io)

\* the application with booking requests of two threads interleaved
ConcSpec == Init /\ [][ConcNext]_vars

(***************************************************************************)
(* Claims about the catalog service.                                       *)
(***************************************************************************)
\* a record with an identifier, a title and a poster path, none of them empty
HasIdTitlePoster(m) ==
    /\ {"id", "title", "poster_path"} \subseteq DOMAIN m
    /\ m.id # 0
    /\ m.title # ""
    /\ m.poster_path # ""

\* C7: every record returned by get_recent_movies, from a live query or from
\* the recent snapshot, has a non-empty identifier, title and poster path.
C7_RecentRecordsComplete ==
    call.fn = "recent" => \A i \in 1..Len(call.list) : HasIdTitlePoster(call.list[i])

\* a call served a non-empty list from the snapshot
C7_Witness ==
    call.fn = "recent" /\ call.source = "snapshot" /\ call.list # << >>

\* C8: a call of get_recent_movies in which the discover and the trending query
\* both fail or yield no complete record returns exactly the list most recently
\* written to the recent snapshot ([] if none was ever written) and leaves the
\* snapshot unchanged.
C8_FallbackReturnsLastWritten ==
    [][ (call'.fn = "recent" /\ call'.source = "snapshot")
        => /\ call'.list = (IF written # None THEN written[1] ELSE << >>)
           /\ recentFile' = recentFile ]_vars

\* C9: get_movie_details(id) returns None or a record whose identifier is id,
\* on the live path and on the snapshot path.
C9_DetailsIdMatches ==
    (call.fn = "details" /\ call.detail # None)
        => ("id" \in DOMAIN call.detail[1] /\ call.detail[1].id = call.id)

\* a call answered a record from the per-id snapshot after the live query gave none
C9_Witness ==
    call.fn = "details" /\ call.source = "snapshot" /\ call.detail # None

\* C11: a call of get_recent_movies whose live query yields complete records
\* and whose snapshot write fails (the file does not hold the fetched list
\* afterwards) still returns a non-empty list of complete records, and what a
\* later fallback reads from the snapshot is what it held before the call.
C11_WriteFailureKeepsSnapshot ==
    [][ (/\ call'.fn = "recent"
         /\ call'.source \in {"discover", "trending"}
         /\ recentFile' # JsonText(call'.list))
        => /\ call'.list # << >>
           /\ \A i \in 1..Len(call'.list) : HasIdTitlePoster(call'.list[i])
           /\ cache_read(recentFile') = cache_read(recentFile) ]_vars

(***************************************************************************)
(* Claims about the booking workflow and registration.                     *)
(***************************************************************************)
\* the rows of a user for a (movie id, showtime, date)
Matching(rows, user_id, movie_id, showtime, date) ==
    { b \in rows : /\ b.user_id = user_id
                   /\ b.movie_id = movie_id
                   /\ b.showtime = showtime
                   /\ b.date = date }

\* one of seats, showtime, date is missing or empty
EmptyField(form) ==
    \/ ~({"seats", "showtime", "date"} \subseteq DOMAIN form)
    \/ form.seats = << >>
    \/ form.showtime = ""
    \/ form.date = ""

\* the seats field is filled with something that is no integer
NonNumericSeats(form) ==
    "seats" \in DOMAIN form /\ form.seats # << >> /\ ~ParseInt(form.seats).ok

\* all three fields filled and seats a positive integer
ValidForm(form) ==
    /\ ~EmptyField(form)
    /\ ParseInt(form.seats).ok
    /\ ParseInt(form.seats).val >= 1

\* the forms a valid booking attempt submits
ValidForms == { form \in Forms : ValidForm(form) }

\* C1: of two valid booking attempts of a user for the same (movie id,
\* showtime, date), handled one after the other with no cancellation between
\* them, the first persists a row, the second ends with the 'error'
\* classification and creates no row, and exactly one matching row is held:
\* an attempt finding no matching row adds exactly one, rows stay until a
\* cancellation, and an attempt finding a matching row changes nothing.
C1_SecondAttemptIsDuplicate ==
    [][ /\ (resp'.route # "cancel" => bookings \subseteq bookings')
        /\ resp'.route = "movie_post" =>
             \A c \in Clients, m \in Movies, form \in ValidForms, io \in AppWriteOutcomes :
             \A reply \in AppDetailReplies(m) :
               (session[c] # 0 /\ movie_page_post(c, m, form, reply, io))
               => LET before == Matching(bookings, session[c], m, form.showtime, form.date)
                      after  == Matching(bookings', session[c], m, form.showtime, form.date)
                  IN  /\ Cardinality(after) = 1
                      /\ before = {} => /\ bookings \subseteq bookings'
                                        /\ Cardinality(bookings' \ bookings) = 1
                      /\ before # {} => /\ bookings' = bookings
                                        /\ resp'.kind = "page"
                                        /\ resp'.message_type = "error" ]_vars

\* a second attempt was answered with the duplicate message and one matching row is held
C1_Witness ==
    /\ resp.route = "movie_post"
    /\ resp.message = "already_booked"
    /\ \E b \in bookings :
         Matching(bookings, session[resp.client], b.movie_id, b.showtime, b.date) = {b}

\* C2: no two Booking rows share (user identifier, movie identifier, showtime,
\* date), also when booking requests interleave between the duplicate query
\* and the commit.
C2_NoTwoRowsSameTuple ==
    \A b1, b2 \in bookings :
        (/\ b1.user_id = b2.user_id
         /\ b1.movie_id = b2.movie_id
         /\ b1.showtime = b2.showtime
         /\ b1.date = b2.date) => b1 = b2

\* C3, for a seats field that is non-numeric: the booking attempt is answered
\* by a rendered page, not an unhandled error, with the validation ('warning')
\* classification, and changes no Booking row.
C3_NonNumericSeatsRejected ==
    [][ resp'.route = "movie_post" =>
          \A c \in Clients, m \in Movies, form \in Forms, io \in AppWriteOutcomes :
          \A reply \in AppDetailReplies(m) :
            (/\ session[c] # 0
             /\ NonNumericSeats(form)
             /\ movie_page_post(c, m, form, reply, io))
            => /\ resp'.kind = "page"
               /\ resp'.message_type = "warning"
               /\ bookings' = bookings ]_vars

\* C4: every Booking row has a seat count >= 1.
C4_SeatsPositive == \A b \in bookings : b.seats >= 1

\* C5: a cancellation request of an authenticated user for a booking
\* identifier whose row belongs to another user, or has no row, leaves every
\* Booking row unchanged and ends in a redirect to the dashboard.
C5_CancelOthersIsNoOp ==
    [][ (/\ resp'.route = "cancel"
         /\ session[resp'.client] # 0
         /\ ~\E b \in bookings : b.id = resp'.arg /\ b.user_id = session[resp'.client])
        => /\ bookings' = bookings
           /\ resp'.kind = "redirect"
           /\ resp'.view = "dashboard" ]_vars

\* a user's cancellation of another user's booking was answered and the row is held
C5_Witness ==
    /\ resp.route = "cancel"
    /\ resp.kind = "redirect"
    /\ resp.view = "dashboard"
    /\ session[resp.client] # 0
    /\ \E b \in bookings : b.id = resp.arg /\ b.user_id # session[resp.client]

\* C6: every booking attempt ends as a page with the success, the validation
\* or the duplicate classification, and it persists a Booking row if and only
\* if the response carries the success classification.
C6_RowIffSuccess ==
    [][ (resp'.route = "movie_post" /\ session[resp'.client] # 0)
        => /\ resp'.kind = "page"
           /\ resp'.message_type \in {"success", "warning", "error"}
           /\ (bookings' # bookings) <=> (resp'.message_type = "success") ]_vars

\* C10: registering an email that has no row creates one User row and
\* succeeds; registering an email that has one fails with the 'already
\* registered' classification and leaves the rows unchanged; no two User rows
\* share an email.
C10_RegisterTwice ==
    [][ /\ \A u1, u2 \in users' : u1.email = u2.email => u1 = u2
        /\ resp'.route = "register" =>
             \A name \in Names, email \in Emails, password \in RegPasswords, salt \in Salts :
               register(name, email, password, salt)
               => IF \E u \in users : u.email = email
                  THEN /\ users' = users
                       /\ resp'.kind = "page"
                       /\ resp'.message_type = "danger"
                       /\ resp'.message = "email_registered"
                  ELSE /\ users \subseteq users'
                       /\ Cardinality(users' \ users) = 1
                       /\ \A u \in users' \ users : u.email = email
                       /\ resp'.message_type = "success" ]_vars

\* a second registration of an email was refused
C10_Witness ==
    /\ resp.route = "register"
    /\ resp.message = "email_registered"
    /\ users # {}

(***************************************************************************)
(* Claims about sessions, the dashboard and cancellation.                  *)
(***************************************************************************)
\* C12: a booking-creation, dashboard or cancellation request of a browser
\* with no authenticated session (never logged in, or logged out) is answered
\* by a redirect to login, not an error, and leaves every Booking row as it is.
C12_AnonymousRedirected ==
    [][ (/\ resp'.route \in {"movie_post", "dashboard", "cancel"}
         /\ session[resp'.client] = 0)
        => /\ resp'.kind = "redirect"
           /\ resp'.view = "login"
           /\ bookings' = bookings ]_vars

\* after a logout, the cancellation of a booking that is held was sent to login
C12_Witness ==
    /\ resp.route = "cancel"
    /\ resp.kind = "redirect"
    /\ resp.view = "login"
    /\ session[resp.client] = 0
    /\ \E b \in bookings : b.id = resp.arg

\* the password a row of user was registered with is the one submitted
RegisteredWith(email, password) ==
    \E u \in users : u.email = email /\ check_password_hash(u.password, password)

\* C13: a login that fails, because the email has no row or because the row
\* was registered with another password, is answered in both cases by the same
\* page (view, classification and message) and establishes no session.
C13_FailedLoginIsGeneric ==
    [][ resp'.route = "login" =>
          \A c \in Clients, email \in Emails, password \in Passwords :
            (login(c, email, password) /\ ~RegisteredWith(email, password))
            => /\ resp' = Page(Req(c, "login", 0), "login.html", "danger",
                               "invalid_credentials", FALSE)
               /\ session' = session ]_vars

\* a login failed while every email had a row: the password was the wrong one
C13_Witness ==
    /\ resp.route = "login"
    /\ resp.message = "invalid_credentials"
    /\ \A email \in Emails : \E u \in users : u.email = email

\* C14: the bookings the dashboard shows to an authenticated user are exactly
\* the Booking rows that user owns.
C14_DashboardShowsOwnRows ==
    (resp.route = "dashboard" /\ resp.kind = "page")
        => { resp.bookings[i] : i \in 1..Len(resp.bookings) }
             = { b \in bookings : b.user_id = session[resp.client] }

\* C15: no request of a route that contacts the metadata service (listing and
\* search, movie detail, dashboard, logout) ends as an unhandled exception when
\* the service fails: it ends in a page (or the redirect of an anonymous
\* request).  The one exception a booking request may end with is the
\* ValueError of int(seats), which no reply of the service causes.
C15_ServiceFailureDegrades ==
    /\ resp.route \in {"index", "movie_get", "dashboard", "logout"}
          => resp.kind \in {"page", "redirect"}
    /\ (resp.route = "movie_post" /\ resp.kind = "error") => resp.message = "ValueError"

\* the seats field is missing, empty, no integer, or an integer below 1
SeatsNotPositive(form) ==
    \/ "seats" \notin DOMAIN form
    \/ ~ParseInt(form.seats).ok
    \/ ParseInt(form.seats).val < 1

\* C16: a booking attempt whose seats are not a positive integer and whose
\* (user, movie id, showtime, date) matches a row already held ends with the
\* validation ('warning') classification, not the duplicate one, and is not
\* committed.  Stated for attempts whose detail lookup finds the movie, so that
\* the page carries the outcome of the attempt.
C16_ValidationBeforeDuplicateCheck ==
    [][ resp'.route = "movie_post" =>
          \A c \in Clients, m \in Movies, form \in Forms, io \in AppWriteOutcomes :
            (/\ session[c] # 0
             /\ SeatsNotPositive(form)
             /\ {"showtime", "date"} \subseteq DOMAIN form
             /\ Matching(bookings, session[c], m, form.showtime, form.date) # {}
             /\ movie_page_post(c, m, form, Http(200, Dune), io))
            => /\ resp'.kind = "page"
               /\ resp'.message_type = "warning"
               /\ resp'.message # "already_booked"
               /\ bookings' = bookings ]_vars

\* C18: a cancellation request for a booking identifier whose row the
\* requesting user owns deletes exactly that row: the row is gone, every other
\* Booking row is as it was, and the User rows are unchanged.
C18_OwnerCancelDeletesOneRow ==
    [][ (/\ resp'.route = "cancel"
         /\ session[resp'.client] # 0
         /\ \E b \in bookings : b.id = resp'.arg /\ b.user_id = session[resp'.client])
        => /\ bookings' = { b \in bookings : b.id # resp'.arg }
           /\ Cardinality(bookings \ bookings') = 1
           /\ users' = users ]_vars

\* a booking was cancelled by its owner while a row of another user is held
C18_Witness ==
    /\ resp.route = "cancel"
    /\ resp.view = "booking_cancelled.html"
    /\ ~\E b \in bookings : b.id = resp.arg
    /\ \E b \in bookings : b.user_id # session[resp.client]

\* C19: the contact email stored in a Booking row is the email of the User row
\* its user_id refers to, so for every user the rows selected by the stored
\* email (the test of cancel_booking) are the rows selected by user_id (the
\* test of the duplicate query).
C19_StoredEmailIsOwnersEmail ==
    /\ \A b \in bookings : \E u \in users : u.id = b.user_id /\ u.email = b.email
    /\ \A u \in users :
          { b \in bookings : b.email = u.email } = { b \in bookings : b.user_id = u.id }

\* rows of two users are held
C19_Witness ==
    \E b1, b2 \in bookings : b1.user_id # b2.user_id

\* C20: when a user has cancelled a booking, the next valid booking attempt of
\* that user for the same (movie id, showtime, date) succeeds: it is not
\* turned down as a duplicate, its row is committed, and exactly one matching
\* row is held afterwards.
C20_CancelReleasesSlot ==
    [][ (/\ resp.route = "cancel"
         /\ resp.kind = "page"
         /\ resp'.route = "movie_post"
         /\ resp'.client = resp.client
         /\ resp'.arg = resp.booking.movie_id
         /\ session[resp.client] = resp.booking.user_id)
        => \A form \in ValidForms, io \in AppWriteOutcomes :
           \A reply \in AppDetailReplies(resp.booking.movie_id) :
             (/\ form.showtime = resp.booking.showtime
              /\ form.date = resp.booking.date
              /\ movie_page_post(resp.client, resp.booking.movie_id, form, reply, io))
             => LET after == Matching(bookings', resp.booking.user_id, resp.booking.movie_id,
                                      resp.booking.showtime, resp.booking.date)
                IN  /\ resp'.kind = "page"
                    /\ resp'.message # "already_booked"
                    /\ Cardinality(after) = 1
                    /\ bookings' = bookings \cup after
                    /\ bookings' # bookings ]_vars

\* a booking was cancelled by its owner, whose next request can book it again
C20_Witness ==
    /\ resp.route = "cancel"
    /\ resp.kind = "page"
    /\ session[resp.client] = resp.booking.user_id
    /\ \E form \in ValidForms :
         /\ form.showtime = resp.booking.showtime
         /\ form.date = resp.booking.date
         /\ ENABLED movie_page_post(resp.client, resp.booking.movie_id, form,
                                    Http(200, Dune), "ok")

(***************************************************************************)
(* Claims about the metadata client.                                       *)
(***************************************************************************)
\* C17: a fetch makes at most 4 HTTP attempts in all, and every attempt but
\* the last one ended in a response with a status of 429, 500, 502, 503 or 504.
C17_AtMostFourAttempts ==
    call.fn = "tmdb_get"
        => /\ Len(call.log) <= 4
           /\ \A i \in 1..(Len(call.log) - 1) :
                 IF call.log[i].error THEN FALSE
                 ELSE call.log[i].status \in {429, 500, 502, 503, 504}

=============================================================================
